---- MODULE Spec2Model ----
(***************************************************************************)
(* A model of src/src/iptables.ts: the IPTables controller, its two        *)
(* MemoryCache stores, the live rule chain kept by the external iptables   *)
(* binary, and the external commands (exec) in flight.                     *)
(*                                                                         *)
(* Every `await` of the source is a step boundary.  A continuation that    *)
(* follows an await of an already settled promise is a microtask: while    *)
(* one is pending no macrotask (an exec callback, a timer) runs.           *)
(***************************************************************************)
EXTENDS Naturals, Integers, Sequences, FiniteSets, Bags, TLC

\* ---------------------------------------------------------------- bounds

NumProcs == 2      \* operations that can be in flight at once
MaxCalls == 4      \* calls the caller makes in one behaviour when it awaits them
                   \* and nothing lapses or fails
MaxLapses == 1     \* TTL lapses in one behaviour
MaxFailures == 1   \* external commands that fail in one behaviour

Procs == 1..NumProcs
Hosts == {"h1", "h2"}
Ifaces == {"i1"}
JumpTarget == {"ACCEPT", "DROP"}

\* ------------------------------------------------------------- constants

hostStdTTL == 300      \* options.stdTTL ??= 300
ifaceStdTTL == 0       \* new MemoryCache({ stdTTL: 0 })

DefaultJumpTarget == "ACCEPT"

VARIABLES
    hostStorage,   \* sequence of entries [key, val, exp], in insertion order
    ifaceStorage,  \* the same for interfaces
    chain,         \* the live rule chain: sequence of rules [match, key, target]
    cmds,          \* bag of external commands in flight [owner, op, rule]
    pc,            \* pc[p]: where operation p stands
    call,          \* call[p]: [name, key, target, by] of the operation
    known,         \* known[p]: what includes() answered
    ret,           \* ret[p]: "none" | "true" | "false" | "void" | "error"
    issued,        \* issued[p]: the commands p issued, in order of issue
    snap,          \* snap[p]: [hosts, ifaces], the lists rebuild enumerated
    flushed,       \* flushed[p]: "none" | "ok" | "failed", p's flush outcome
    errors,        \* errors[p]: commands of p that failed while p awaited them
    before,        \* before[p]: [chain, hosts, ifaces] when p was called
    prev,          \* the caller's last call if it was an add or addInterface that
                   \* returned true, and whether its key lapsed since
    calls,         \* calls made so far
    lapses,        \* TTL lapses so far
    failures,      \* failed commands so far
    discipline,    \* "awaited" | "overlapping": how the caller makes its calls
    emitted,       \* the notifications [event, key] the controller has emitted
    episode        \* the calls the caller made since no operation and no command
                   \* was in flight, and whether the chain then held one rule
                   \* for each host of the store and for no other host

vars == <<hostStorage, ifaceStorage, chain, cmds, pc, call, known, ret,
          issued, snap, flushed, errors, before, prev, calls, lapses, failures,
          discipline, emitted, episode>>

stores == <<hostStorage, ifaceStorage>>
locals == <<call, known, issued, snap, flushed, errors, before>>
budget == <<calls, lapses, failures>>

\* ------------------------------------------------- the expiring store

Entry(k, v) == [key |-> k, val |-> v, exp |-> FALSE]

Includes(store, k) ==
    \E i \in DOMAIN store : store[i].key = k /\ ~store[i].exp

Set(store, k, v) ==
    IF \E i \in DOMAIN store : store[i].key = k
    THEN [i \in DOMAIN store |->
            IF store[i].key = k THEN Entry(k, v) ELSE store[i]]
    ELSE Append(store, Entry(k, v))

Del(store, k) == SelectSeq(store, LAMBDA e : e.key # k)

Live(store) == SelectSeq(store, LAMBDA e : ~e.exp)

List(store) ==
    [i \in DOMAIN Live(store) |-> <<Live(store)[i].key, Live(store)[i].val>>]

Clear(store) == << >>

\* the entry of key k has outlived its TTL: logically absent, not yet swept
LapseEntry(store, k) ==
    [i \in DOMAIN store |->
        IF store[i].key = k THEN [store[i] EXCEPT !.exp = TRUE] ELSE store[i]]

Lapsed(store) == {store[i].key : i \in {j \in DOMAIN store : store[j].exp}}

Keys(store) == {store[i].key : i \in DOMAIN store}

ValueOf(store, k) ==
    LET i == CHOOSE j \in DOMAIN store : store[j].key = k IN store[i].val

\* ------------------------------------------------- external commands

HostRule(host, jumpTarget) ==
    [match |-> "-s", key |-> host, target |-> jumpTarget]

IfaceRule(iface, jumpTarget) ==
    [match |-> "-i", key |-> iface, target |-> jumpTarget]

NoRule == [match |-> "", key |-> "", target |-> ""]

FlushCmd(p) == [owner |-> p, op |-> "-F", rule |-> NoRule]

AppendCmd(p, rule) == [owner |-> p, op |-> "-A", rule |-> rule]

\* what the iptables binary does to the chain when a command succeeds
Effect(c, ch) == IF c.op = "-F" THEN << >> ELSE Append(ch, c.rule)

One(c) == SetToBag({c})

OwnedBy(p) == {c \in BagToSet(cmds) : c.owner = p}

\* the bag with the commands of p handed to nobody: Promise.all has rejected,
\* the commands still run and nothing awaits them
Orphan(bag, p) ==
    LET mine == {c \in BagToSet(bag) : c.owner = p}
        gone == [c \in mine |-> bag[c]]
        left == [d \in {[c EXCEPT !.owner = 0] : c \in mine} |->
                    bag[[d EXCEPT !.owner = p]]]
    IN  (bag (-) gone) (+) left

\* ------------------------------------------------- scheduling

CallMicro == {"add_checked", "addi_checked", "del_checked", "deli_checked",
              "del_deleted", "deli_deleted"}
ContMicro == {"add_appended", "addi_appended", "rb_flushed", "rb_hosts",
              "fa_flushed", "done"}

\* a macrotask (an exec callback, a timer) runs only when no microtask is pending
MacroTurn == \A p \in Procs : pc[p] \notin (CallMicro \cup ContMicro)

\* a call is made from the caller's synchronous code: never in the middle of a
\* continuation, nor before a listener's microtasks have run
CallTurn ==
    \A p \in Procs :
        /\ pc[p] \notin ContMicro
        /\ pc[p] \in CallMicro => call[p].by = "caller"

Idle(p) == pc[p] = "idle"

\* a new operation takes the first free slot
FirstIdle(p) == Idle(p) /\ \A q \in Procs : q < p => ~Idle(q)

\* the caller awaits each call before it makes the next one
Awaited == \A q \in Procs : Idle(q) \/ call[q].by = "expired"

\* the calls of a behaviour: MaxCalls, less one for a call made after a lapse
\* or a failed command, and less one, for a caller that overlaps its calls,
\* for each operation it may have in flight beyond the first
Faulty == IF lapses + failures > 0 THEN 1 ELSE 0
Overlapped == IF discipline = "overlapping" THEN NumProcs - 1 ELSE 0

MayCall(p) ==
    /\ CallTurn
    /\ FirstIdle(p)
    /\ calls + Faulty + Overlapped < MaxCalls
    /\ discipline = "awaited" => Awaited

NoCall == [name |-> "", key |-> "", target |-> "", nothrow |-> FALSE, by |-> ""]
NoSnap == [hosts |-> << >>, ifaces |-> << >>]
NoBefore == [chain |-> << >>, hosts |-> << >>, ifaces |-> << >>]
NoPrev == [name |-> "", key |-> "", target |-> "", issued |-> 0,
           expired |-> FALSE]
NoEpisode == [calls |-> << >>, clean |-> TRUE]

Init ==
    /\ discipline \in {"awaited", "overlapping"}
    /\ hostStorage = << >>
    /\ ifaceStorage = << >>
    /\ chain = << >>
    /\ cmds = EmptyBag
    /\ pc = [p \in Procs |-> "idle"]
    /\ call = [p \in Procs |-> NoCall]
    /\ known = [p \in Procs |-> FALSE]
    /\ ret = [p \in Procs |-> "none"]
    /\ issued = [p \in Procs |-> << >>]
    /\ snap = [p \in Procs |-> NoSnap]
    /\ flushed = [p \in Procs |-> "none"]
    /\ errors = [p \in Procs |-> 0]
    /\ before = [p \in Procs |-> NoBefore]
    /\ prev = NoPrev
    /\ emitted = {}
    /\ episode = NoEpisode
    /\ calls = 0
    /\ lapses = 0
    /\ failures = 0

\* ------------------------------------------------- steps shared by operations

\* the chain holds one rule for each host of the store and for no other host
OneRulePerHost ==
    \A h \in Hosts :
        Cardinality({i \in DOMAIN chain :
                        chain[i].match = "-s" /\ chain[i].key = h}) =
        IF \E i \in DOMAIN hostStorage : hostStorage[i].key = h THEN 1 ELSE 0

\* the episode with one more call of the caller
Called(name, key) ==
    [calls |-> Append(episode.calls, [name |-> name, key |-> key]),
     clean |-> IF episode.calls = << >> THEN OneRulePerHost ELSE episode.clean]

\* the synchronous start of a call: its arguments, and includes() where the
\* operation asks it first
Begin(p, name, key, target, nothrow, by, isKnown, next) ==
    /\ call' = [call EXCEPT ![p] = [name |-> name, key |-> key, target |-> target,
                                    nothrow |-> nothrow, by |-> by]]
    /\ known' = [known EXCEPT ![p] = isKnown]
    /\ pc' = [pc EXCEPT ![p] = next]
    /\ before' = [before EXCEPT ![p] = [chain |-> chain, hosts |-> hostStorage',
                                        ifaces |-> ifaceStorage']]
    /\ episode' = IF by = "caller" THEN Called(name, key) ELSE episode

\* the operation's promise settles with r
Settle(p, r) ==
    /\ pc' = [pc EXCEPT ![p] = "done"]
    /\ ret' = [ret EXCEPT ![p] = r]

\* exec(cmd, callback): the command is handed to the external tool
Exec(p, cs) ==
    /\ cmds' = cmds (+) SetToBag({cs[i] : i \in DOMAIN cs})
    /\ issued' = [issued EXCEPT ![p] = issued[p] \o cs]

\* ------------------------------------------------- add, addInterface, keepAlive

\* add(host, jumpTarget): the call, up to `await this.hostStorage.includes(host)`
add(p, host, jumpTarget) ==
    /\ MayCall(p)
    /\ UNCHANGED stores
    /\ Begin(p, "add", host, jumpTarget, FALSE, "caller",
             Includes(hostStorage, host), "add_checked")
    /\ calls' = calls + 1
    /\ UNCHANGED <<chain, cmds, ret, issued, snap, flushed, errors, prev, lapses,
                   failures, discipline, emitted>>

\* keepAlive(host): `await this.add(host)`, the jump target left to its default
keepAlive(p, host) ==
    /\ MayCall(p)
    /\ UNCHANGED stores
    /\ Begin(p, "keepAlive", host, DefaultJumpTarget, FALSE, "caller",
             Includes(hostStorage, host), "add_checked")
    /\ calls' = calls + 1
    /\ UNCHANGED <<chain, cmds, ret, issued, snap, flushed, errors, prev, lapses,
                   failures, discipline, emitted>>

\* what add resolves to: set() answers true; keepAlive resolves to nothing
AddResult(p) == IF call[p].name = "keepAlive" THEN "void" ELSE "true"

\* add that appends without asking the store whether the host is known
add_always_appends(p) ==
    /\ pc[p] = "add_checked"
    /\ Exec(p, <<AppendCmd(p, HostRule(call[p].key, call[p].target))>>)
    /\ pc' = [pc EXCEPT ![p] = "add_wait"]
    /\ UNCHANGED <<stores, chain, call, known, ret, snap, flushed, errors,
                   before, prev, budget, discipline, emitted, episode>>

\* add after the includes() check: `await this._add(...)` for an unknown host,
\* `return this.hostStorage.set(...)` for a known one
add_checked(p) ==
    /\ pc[p] = "add_checked"
    /\ IF known[p]
       THEN /\ hostStorage' = Set(hostStorage, call[p].key, call[p].target)
            /\ Settle(p, AddResult(p))
            /\ UNCHANGED <<cmds, issued>>
       ELSE /\ Exec(p, <<AppendCmd(p, HostRule(call[p].key, call[p].target))>>)
            /\ pc' = [pc EXCEPT ![p] = "add_wait"]
            /\ UNCHANGED <<hostStorage, ret>>
    /\ UNCHANGED <<ifaceStorage, chain, call, known, snap, flushed, errors,
                   before, prev, budget, discipline, emitted, episode>>

\* add that returns true without setting the host in the store
add_set_forgets(p) ==
    /\ pc[p] = "add_appended"
    /\ Settle(p, AddResult(p))
    /\ UNCHANGED <<stores, chain, cmds, locals, prev, budget, discipline,
                   emitted, episode>>

\* add after its append resolved: `return this.hostStorage.set(host, jumpTarget)`
add_set(p) ==
    /\ pc[p] = "add_appended"
    /\ hostStorage' = Set(hostStorage, call[p].key, call[p].target)
    /\ Settle(p, AddResult(p))
    /\ UNCHANGED <<ifaceStorage, chain, cmds, locals, prev, budget,
                   discipline, emitted, episode>>

\* addInterface(iface, jumpTarget): the call, up to the includes() check
addInterface(p, iface, jumpTarget) ==
    /\ MayCall(p)
    /\ UNCHANGED stores
    /\ Begin(p, "addInterface", iface, jumpTarget, FALSE, "caller",
             Includes(ifaceStorage, iface), "addi_checked")
    /\ calls' = calls + 1
    /\ UNCHANGED <<chain, cmds, ret, issued, snap, flushed, errors, prev, lapses,
                   failures, discipline, emitted>>

\* addInterface that appends whether the interface is known or not
addInterface_always_appends(p) ==
    /\ pc[p] = "addi_checked"
    /\ Exec(p, <<AppendCmd(p, IfaceRule(call[p].key, call[p].target))>>)
    /\ pc' = [pc EXCEPT ![p] = "addi_wait"]
    /\ UNCHANGED <<stores, chain, call, known, ret, snap, flushed, errors,
                   before, prev, budget, discipline, emitted, episode>>

\* addInterface after the includes() check, as add
addInterface_checked(p) ==
    /\ pc[p] = "addi_checked"
    /\ IF known[p]
       THEN /\ ifaceStorage' = Set(ifaceStorage, call[p].key, call[p].target)
            /\ Settle(p, "true")
            /\ UNCHANGED <<cmds, issued>>
       ELSE /\ Exec(p, <<AppendCmd(p, IfaceRule(call[p].key, call[p].target))>>)
            /\ pc' = [pc EXCEPT ![p] = "addi_wait"]
            /\ UNCHANGED <<ifaceStorage, ret>>
    /\ UNCHANGED <<hostStorage, chain, call, known, snap, flushed, errors,
                   before, prev, budget, discipline, emitted, episode>>

addInterface_set(p) ==
    /\ pc[p] = "addi_appended"
    /\ ifaceStorage' = Set(ifaceStorage, call[p].key, call[p].target)
    /\ Settle(p, "true")
    /\ UNCHANGED <<hostStorage, chain, cmds, locals, prev, budget,
                   discipline, emitted, episode>>

\* ------------------------------------------------- delete, deleteInterface

\* delete(host): the call, up to the includes() check
delete(p, host) ==
    /\ MayCall(p)
    /\ UNCHANGED stores
    /\ Begin(p, "delete", host, "", FALSE, "caller",
             Includes(hostStorage, host), "del_checked")
    /\ calls' = calls + 1
    /\ UNCHANGED <<chain, cmds, ret, issued, snap, flushed, errors, prev, lapses,
                   failures, discipline, emitted>>

\* delete that rebuilds without removing the host from the store
delete_keeps_entry(p) ==
    /\ pc[p] = "del_checked"
    /\ IF ~known[p]
       THEN Settle(p, "false")
       ELSE pc' = [pc EXCEPT ![p] = "del_deleted"] /\ UNCHANGED ret
    /\ UNCHANGED <<stores, chain, cmds, locals, prev, budget,
                   discipline, emitted, episode>>

\* delete after the check: `return false`, or `await this.hostStorage.del(host)`
delete_checked(p) ==
    /\ pc[p] = "del_checked"
    /\ IF ~known[p]
       THEN /\ Settle(p, "false")
            /\ UNCHANGED hostStorage
       ELSE /\ hostStorage' = Del(hostStorage, call[p].key)
            /\ pc' = [pc EXCEPT ![p] = "del_deleted"]
            /\ UNCHANGED ret
    /\ UNCHANGED <<ifaceStorage, chain, cmds, locals, prev, budget,
                   discipline, emitted, episode>>

deleteInterface(p, iface) ==
    /\ MayCall(p)
    /\ UNCHANGED stores
    /\ Begin(p, "deleteInterface", iface, "", FALSE, "caller",
             Includes(ifaceStorage, iface), "deli_checked")
    /\ calls' = calls + 1
    /\ UNCHANGED <<chain, cmds, ret, issued, snap, flushed, errors, prev, lapses,
                   failures, discipline, emitted>>

\* deleteInterface without the includes() check
deleteInterface_unchecked(p) ==
    /\ pc[p] = "deli_checked"
    /\ ifaceStorage' = Del(ifaceStorage, call[p].key)
    /\ pc' = [pc EXCEPT ![p] = "deli_deleted"]
    /\ UNCHANGED <<hostStorage, ret, chain, cmds, locals, prev, budget,
                   discipline, emitted, episode>>

deleteInterface_checked(p) ==
    /\ pc[p] = "deli_checked"
    /\ IF ~known[p]
       THEN /\ Settle(p, "false")
            /\ UNCHANGED ifaceStorage
       ELSE /\ ifaceStorage' = Del(ifaceStorage, call[p].key)
            /\ pc' = [pc EXCEPT ![p] = "deli_deleted"]
            /\ UNCHANGED ret
    /\ UNCHANGED <<hostStorage, chain, cmds, locals, prev, budget,
                   discipline, emitted, episode>>

\* ------------------------------------------------- rebuild

\* `return this.rebuild()`: rebuild starts with `await this.flush()`
rebuild(p) ==
    /\ pc[p] \in {"del_deleted", "deli_deleted"}
    /\ Exec(p, <<FlushCmd(p)>>)
    /\ pc' = [pc EXCEPT ![p] = "rb_flush"]
    /\ UNCHANGED <<stores, chain, call, known, ret, snap, flushed, errors,
                   before, prev, budget, discipline, emitted, episode>>

HostRules(list) == [i \in DOMAIN list |-> HostRule(list[i][1], list[i][2])]

IfaceRules(list) == [i \in DOMAIN list |-> IfaceRule(list[i][1], list[i][2])]

CmdsOf(p, rules) == [i \in DOMAIN rules |-> AppendCmd(p, rules[i])]

\* rebuild that enumerates the host store as delete left it, not as it is
\* when the flush has resolved
rebuild_hosts_stale(p) ==
    /\ pc[p] = "rb_flushed"
    /\ snap' = [snap EXCEPT ![p].hosts =
                                List(Del(before[p].hosts, call[p].key))]
    /\ pc' = [pc EXCEPT ![p] = "rb_hosts"]
    /\ UNCHANGED <<stores, chain, cmds, call, known, ret, issued, flushed,
                   errors, before, prev, budget, discipline, emitted, episode>>

\* rebuild after its flush resolved: `await this.hostStorage.list()`
rebuild_hosts(p) ==
    /\ pc[p] = "rb_flushed"
    /\ snap' = [snap EXCEPT ![p].hosts = List(hostStorage)]
    /\ pc' = [pc EXCEPT ![p] = "rb_hosts"]
    /\ UNCHANGED <<stores, chain, cmds, call, known, ret, issued, flushed,
                   errors, before, prev, budget, discipline, emitted, episode>>

\* rebuild that re-appends the hosts and forgets the interfaces
rebuild_hosts_only(p) ==
    /\ pc[p] = "rb_hosts"
    /\ LET all == CmdsOf(p, HostRules(snap[p].hosts))
       IN  /\ snap' = [snap EXCEPT ![p].ifaces = List(ifaceStorage)]
           /\ Exec(p, all)
           /\ IF all = << >>
              THEN Settle(p, "true")
              ELSE pc' = [pc EXCEPT ![p] = "rb_wait"] /\ UNCHANGED ret
    /\ UNCHANGED <<stores, chain, call, known, flushed, errors, before, prev,
                   budget, discipline, emitted, episode>>

\* the loop over the hosts, `await this.ifaceStorage.list()`, the loop over the
\* interfaces, and `await Promise.all(promises)` (of no promise: `return true`)
rebuild_ifaces(p) ==
    /\ pc[p] = "rb_hosts"
    /\ LET list == List(ifaceStorage)
           all == CmdsOf(p, HostRules(snap[p].hosts)) \o
                  CmdsOf(p, IfaceRules(list))
       IN  /\ snap' = [snap EXCEPT ![p].ifaces = list]
           /\ Exec(p, all)
           /\ IF all = << >>
              THEN Settle(p, "true")
              ELSE pc' = [pc EXCEPT ![p] = "rb_wait"] /\ UNCHANGED ret
    /\ UNCHANGED <<stores, chain, call, known, flushed, errors, before, prev,
                   budget, discipline, emitted, episode>>

\* ------------------------------------------------- flush, flushAll

\* flush(nothrow) called by the caller: exec of the flush command
flush(p, nothrow) ==
    /\ MayCall(p)
    /\ UNCHANGED stores
    /\ Begin(p, "flush", "", "", nothrow, "caller", FALSE, "fl_flush")
    /\ Exec(p, <<FlushCmd(p)>>)
    /\ calls' = calls + 1
    /\ UNCHANGED <<chain, ret, snap, flushed, errors, prev, lapses, failures,
                   discipline, emitted>>

\* flushAll(): the call, up to `await this.flush()`
flushAll(p) ==
    /\ MayCall(p)
    /\ UNCHANGED stores
    /\ Begin(p, "flushAll", "", "", FALSE, "caller", FALSE, "fa_flush")
    /\ Exec(p, <<FlushCmd(p)>>)
    /\ calls' = calls + 1
    /\ UNCHANGED <<chain, ret, snap, flushed, errors, prev, lapses, failures,
                   discipline, emitted>>

\* flushAll that clears the interface store as well
flushAll_clears_both(p) ==
    /\ pc[p] = "fa_flushed"
    /\ hostStorage' = Clear(hostStorage)
    /\ ifaceStorage' = Clear(ifaceStorage)
    /\ Settle(p, "void")
    /\ UNCHANGED <<chain, cmds, locals, prev, budget,
                   discipline, emitted, episode>>

\* flushAll after its flush resolved: `await this.hostStorage.clear()`
flushAll_clear(p) ==
    /\ pc[p] = "fa_flushed"
    /\ hostStorage' = Clear(hostStorage)
    /\ Settle(p, "void")
    /\ UNCHANGED <<ifaceStorage, chain, cmds, locals, prev, budget,
                   discipline, emitted, episode>>

\* ------------------------------------------------- the external tool answers

\* the callback of exec in flush, _add and _addInterface:
\* `if (error && !nothrow) return reject(error); return resolve();`
Resolves(ok, nothrow) == ok \/ nothrow

\* _add and _addInterface called with nothrow: a failed append resolves
add_settled_nothrow(p, c, ok) ==
    /\ cmds' = cmds (-) One(c)
    /\ pc' = [pc EXCEPT ![p] = IF pc[p] = "add_wait" THEN "add_appended"
                                ELSE "addi_appended"]
    /\ UNCHANGED <<ret, flushed>>

\* `await this._add(...)` in add, `await this._addInterface(...)` in addInterface
add_settled(p, c, ok) ==
    /\ cmds' = cmds (-) One(c)
    /\ IF Resolves(ok, FALSE)
       THEN /\ pc' = [pc EXCEPT ![p] = IF pc[p] = "add_wait" THEN "add_appended"
                                       ELSE "addi_appended"]
            /\ UNCHANGED ret
       ELSE Settle(p, "error")
    /\ UNCHANGED flushed

\* rebuild without the try and catch around its flush: it goes on to re-append
rebuild_flushed_uncaught(p, c, ok) ==
    /\ cmds' = cmds (-) One(c)
    /\ flushed' = [flushed EXCEPT ![p] = IF ok THEN "ok" ELSE "failed"]
    /\ pc' = [pc EXCEPT ![p] = "rb_flushed"]
    /\ UNCHANGED ret

\* rebuild whose catch returns true
rebuild_flushed_true(p, c, ok) ==
    /\ cmds' = cmds (-) One(c)
    /\ flushed' = [flushed EXCEPT ![p] = IF ok THEN "ok" ELSE "failed"]
    /\ IF Resolves(ok, FALSE)
       THEN pc' = [pc EXCEPT ![p] = "rb_flushed"] /\ UNCHANGED ret
       ELSE Settle(p, "true")

\* `try { await this.flush(); } catch { return false; }` in rebuild
rebuild_flushed(p, c, ok) ==
    /\ cmds' = cmds (-) One(c)
    /\ flushed' = [flushed EXCEPT ![p] = IF ok THEN "ok" ELSE "failed"]
    /\ IF Resolves(ok, FALSE)
       THEN pc' = [pc EXCEPT ![p] = "rb_flushed"] /\ UNCHANGED ret
       ELSE Settle(p, "false")

\* rebuild that waits for all its appends whatever their outcome and returns true
rebuild_settled_all(p, c, ok) ==
    /\ UNCHANGED flushed
    /\ cmds' = cmds (-) One(c)
    /\ IF OwnedBy(p) = {c} /\ cmds[c] = 1
       THEN Settle(p, "true")
       ELSE UNCHANGED <<pc, ret>>

\* `await Promise.all(promises); return true;` in rebuild: the first rejection
\* rejects rebuild while its other commands still run
rebuild_settled(p, c, ok) ==
    /\ UNCHANGED flushed
    /\ IF ~Resolves(ok, FALSE)
       THEN /\ cmds' = Orphan(cmds (-) One(c), p)
            /\ Settle(p, "error")
       ELSE /\ cmds' = cmds (-) One(c)
            /\ IF OwnedBy(p) = {c} /\ cmds[c] = 1
               THEN Settle(p, "true")
               ELSE UNCHANGED <<pc, ret>>

\* flush that rejects on a failed command whatever nothrow says
flush_settled_throws(p, c, ok) ==
    /\ cmds' = cmds (-) One(c)
    /\ flushed' = [flushed EXCEPT ![p] = IF ok THEN "ok" ELSE "failed"]
    /\ Settle(p, IF ok THEN "void" ELSE "error")

\* the promise of flush(nothrow) called by the caller
flush_settled(p, c, ok) ==
    /\ cmds' = cmds (-) One(c)
    /\ flushed' = [flushed EXCEPT ![p] = IF ok THEN "ok" ELSE "failed"]
    /\ Settle(p, IF Resolves(ok, call[p].nothrow) THEN "void" ELSE "error")

\* `await this.flush()` in flushAll
flushAll_flushed(p, c, ok) ==
    /\ cmds' = cmds (-) One(c)
    /\ flushed' = [flushed EXCEPT ![p] = IF ok THEN "ok" ELSE "failed"]
    /\ IF Resolves(ok, FALSE)
       THEN pc' = [pc EXCEPT ![p] = "fa_flushed"] /\ UNCHANGED ret
       ELSE Settle(p, "error")

\* an external command exits: its effect on the chain if it succeeded, then the
\* exec callback and the continuation of whoever awaits it
Completed(c, ok) ==
    /\ MacroTurn
    /\ BagIn(c, cmds)
    /\ ok \/ failures < MaxFailures
    /\ chain' = IF ok THEN Effect(c, chain) ELSE chain
    /\ failures' = IF ok THEN failures ELSE failures + 1
    /\ errors' = IF ok \/ c.owner = 0 THEN errors
                 ELSE [errors EXCEPT ![c.owner] = errors[c.owner] + 1]
    /\ IF c.owner = 0
       THEN cmds' = cmds (-) One(c) /\ UNCHANGED <<pc, ret, flushed>>
       ELSE CASE pc[c.owner] \in {"add_wait", "addi_wait"} -> add_settled(c.owner, c, ok)
              [] pc[c.owner] = "rb_flush" -> rebuild_flushed(c.owner, c, ok)
              [] pc[c.owner] = "rb_wait" -> rebuild_settled(c.owner, c, ok)
              [] pc[c.owner] = "fl_flush" -> flush_settled(c.owner, c, ok)
              [] pc[c.owner] = "fa_flush" -> flushAll_flushed(c.owner, c, ok)
    /\ UNCHANGED <<stores, call, known, issued, snap, before, prev, calls,
                   lapses, discipline, emitted, episode>>

Completion == \E c \in BagToSet(cmds), ok \in BOOLEAN : Completed(c, ok)

\* ------------------------------------------------- time and the sweep timer

\* both stores created with the host store's TTL
StdTTL_same(which) == hostStdTTL

\* `stdTTL: options.stdTTL` of the host store, `stdTTL: 0` of the interface store
StdTTL(which) == IF which = "host" THEN hostStdTTL ELSE ifaceStdTTL

Storage(which) == IF which = "host" THEN hostStorage ELSE ifaceStorage

\* stdTTL seconds have passed since the entry of key k was set
Lapse(which, k) ==
    /\ MacroTurn
    /\ StdTTL(which) > 0
    /\ Includes(Storage(which), k)
    /\ lapses < MaxLapses
    /\ calls + Overlapped < MaxCalls    \* a call may still follow the lapse
    /\ lapses' = lapses + 1
    /\ IF which = "host"
       THEN hostStorage' = LapseEntry(hostStorage, k) /\ UNCHANGED ifaceStorage
       ELSE ifaceStorage' = LapseEntry(ifaceStorage, k) /\ UNCHANGED hostStorage
    /\ prev' = IF which = "host" /\ prev.key = k
               THEN [prev EXCEPT !.expired = TRUE] ELSE prev
    /\ UNCHANGED <<chain, cmds, pc, ret, locals, calls, failures,
                   discipline, emitted, episode>>

\* the store's sweep removes a lapsed entry and emits 'expired' with its key; the
\* controller's listener calls delete(key) (deleteInterface(key) for the
\* interface store), which runs up to its includes() check
Sweep(p, which, k) ==
    /\ MacroTurn
    /\ k \in Lapsed(Storage(which))
    /\ FirstIdle(p)
    /\ IF which = "host"
       THEN /\ hostStorage' = Del(hostStorage, k)
            /\ UNCHANGED ifaceStorage
            /\ Begin(p, "delete", k, "", FALSE, "expired",
                     Includes(hostStorage', k), "del_checked")
       ELSE /\ ifaceStorage' = Del(ifaceStorage, k)
            /\ UNCHANGED hostStorage
            /\ Begin(p, "deleteInterface", k, "", FALSE, "expired",
                     Includes(ifaceStorage', k), "deli_checked")
    /\ UNCHANGED <<chain, cmds, ret, issued, snap, flushed, errors, prev, budget,
                   discipline, emitted>>

\* a store meets an internal fault and emits 'error'; the controller's listener
\* emits it to the controller's own listeners:
\* `this.hostStorage.on('error', error => this.emit('error', error))`
StoreFault(which) ==
    /\ MacroTurn
    /\ [event |-> "error", key |-> which] \notin emitted
    /\ emitted' = emitted \cup {[event |-> "error", key |-> which]}
    /\ UNCHANGED <<stores, chain, cmds, pc, ret, locals, prev, budget,
                   discipline, episode>>

\* the continuation of whoever awaits the settled operation takes its outcome (for
\* a listener, nobody does)
Return(p) ==
    /\ pc[p] = "done"
    /\ pc' = [pc EXCEPT ![p] = "idle"]
    /\ call' = [call EXCEPT ![p] = NoCall]
    /\ known' = [known EXCEPT ![p] = FALSE]
    /\ ret' = [ret EXCEPT ![p] = "none"]
    /\ issued' = [issued EXCEPT ![p] = << >>]
    /\ snap' = [snap EXCEPT ![p] = NoSnap]
    /\ flushed' = [flushed EXCEPT ![p] = "none"]
    /\ errors' = [errors EXCEPT ![p] = 0]
    /\ before' = [before EXCEPT ![p] = NoBefore]
    /\ prev' = IF call[p].by = "expired" THEN prev
               ELSE IF call[p].name \in {"add", "addInterface"} /\ ret[p] = "true"
               THEN [name |-> call[p].name, key |-> call[p].key,
                     target |-> call[p].target, issued |-> Len(issued[p]),
                     expired |-> FALSE]
               ELSE NoPrev
    /\ episode' = IF cmds = EmptyBag /\ \A q \in Procs \ {p} : Idle(q)
                  THEN NoEpisode ELSE episode
    /\ UNCHANGED <<stores, chain, cmds, budget, discipline, emitted>>

\* ------------------------------------------------- the specifications

Next ==
    \/ \E p \in Procs, h \in Hosts, t \in JumpTarget : add(p, h, t)
    \/ \E p \in Procs, h \in Hosts : keepAlive(p, h)
    \/ \E p \in Procs : add_checked(p)
    \/ \E p \in Procs : add_set(p)
    \/ \E p \in Procs, i \in Ifaces, t \in JumpTarget : addInterface(p, i, t)
    \/ \E p \in Procs : addInterface_checked(p)
    \/ \E p \in Procs : addInterface_set(p)
    \/ \E p \in Procs, h \in Hosts : delete(p, h)
    \/ \E p \in Procs : delete_checked(p)
    \/ \E p \in Procs, i \in Ifaces : deleteInterface(p, i)
    \/ \E p \in Procs : deleteInterface_checked(p)
    \/ \E p \in Procs : rebuild(p)
    \/ \E p \in Procs : rebuild_hosts(p)
    \/ \E p \in Procs : rebuild_ifaces(p)
    \/ \E p \in Procs, nothrow \in BOOLEAN : flush(p, nothrow)
    \/ \E p \in Procs : flushAll(p)
    \/ \E p \in Procs : flushAll_clear(p)
    \/ Completion
    \/ \E which \in {"host", "iface"}, k \in Hosts \cup Ifaces : Lapse(which, k)
    \/ \E p \in Procs, which \in {"host", "iface"}, k \in Hosts \cup Ifaces :
          Sweep(p, which, k)
    \/ \E p \in Procs : Return(p)

\* callers may overlap their calls or await them
Spec == Init /\ [][Next]_vars

\* the caller awaits every call before the next one
InitAwaited == Init /\ discipline = "awaited"

SpecAwaited == InitAwaited /\ [][Next]_vars

\* the stores may meet internal faults as well
NextStoreFaults ==
    \/ Next
    \/ \E which \in {"host", "iface"} : StoreFault(which)

SpecStoreFaults == InitAwaited /\ [][NextStoreFaults]_vars

\* every external command succeeds
Succeeded == \E c \in BagToSet(cmds) : Completed(c, TRUE)

NextReliable ==
    \/ \E p \in Procs, h \in Hosts, t \in JumpTarget : add(p, h, t)
    \/ \E p \in Procs, h \in Hosts : keepAlive(p, h)
    \/ \E p \in Procs : add_checked(p)
    \/ \E p \in Procs : add_set(p)
    \/ \E p \in Procs, i \in Ifaces, t \in JumpTarget : addInterface(p, i, t)
    \/ \E p \in Procs : addInterface_checked(p)
    \/ \E p \in Procs : addInterface_set(p)
    \/ \E p \in Procs, h \in Hosts : delete(p, h)
    \/ \E p \in Procs : delete_checked(p)
    \/ \E p \in Procs, i \in Ifaces : deleteInterface(p, i)
    \/ \E p \in Procs : deleteInterface_checked(p)
    \/ \E p \in Procs : rebuild(p)
    \/ \E p \in Procs : rebuild_hosts(p)
    \/ \E p \in Procs : rebuild_ifaces(p)
    \/ \E p \in Procs, nothrow \in BOOLEAN : flush(p, nothrow)
    \/ \E p \in Procs : flushAll(p)
    \/ \E p \in Procs : flushAll_clear(p)
    \/ Succeeded
    \/ \E p \in Procs : Return(p)

\* callers may overlap their calls, no entry expires and every command succeeds
SpecReliable == Init /\ [][NextReliable]_vars

\* ------------------------------------------------- what the claims speak of

\* no controller operation is in flight and no command of one is still running
Quiescent == (\A p \in Procs : Idle(p)) /\ cmds = EmptyBag

Pairs(store) == [i \in DOMAIN store |-> <<store[i].key, store[i].val>>]

\* the chain as the stores derive it: the host entries, then the interface entries
Rendered ==
    HostRules(Pairs(hostStorage)) \o IfaceRules(Pairs(ifaceStorage))

RulesFor(ch, match, k) ==
    {i \in DOMAIN ch : ch[i].match = match /\ ch[i].key = k}

IsPrefix(a, b) == Len(a) <= Len(b) /\ SubSeq(b, 1, Len(a)) = a

Done(p) == pc[p] = "done"

DeletesKnown(p) == call[p].name \in {"delete", "deleteInterface"} /\ known[p]

\* C1: whenever no operation is in flight, the chain is one source rule per
\* host-store entry in insertion order, then one in-interface rule per
\* interface-store entry in insertion order.
C1_ChainIsRendered == Quiescent => chain = Rendered

\* C2: the listener's delete(h) for an expired host h, the external commands
\* succeeding, issues a flush and re-appends the stored entries, so that the
\* chain holds no rule for h when it has settled.
C2_ExpiryRebuilds ==
    \A p \in Procs :
        (Done(p) /\ call[p].by = "expired" /\ call[p].name = "delete"
                 /\ failures = 0)
        => /\ issued[p] # << >>
           /\ issued[p][1] = FlushCmd(p)
           /\ RulesFor(chain, "-s", call[p].key) = {}

StoreOf(p) ==
    IF call[p].name \in {"addInterface", "deleteInterface"}
    THEN ifaceStorage ELSE hostStorage

MatchOf(p) ==
    IF call[p].name \in {"addInterface", "deleteInterface"} THEN "-i" ELSE "-s"

EntriesOf(store, k) == {i \in DOMAIN store : store[i].key = k}

\* C3 as stated: delete(h) on a known host (deleteInterface(i) on a known
\* interface) returns true if and only if the flush of its rebuild succeeds,
\* whatever the outcome of the other commands.
C3_TrueIffFlushed ==
    \A p \in Procs :
        (Done(p) /\ DeletesKnown(p)) => (ret[p] = "true" <=> flushed[p] = "ok")

\* C3 amended: delete(h) on a known host (deleteInterface(i) on a known
\* interface) returns false if and only if the flush of its rebuild fails; when
\* the flush succeeds it returns true if and only if no append of the rebuild
\* fails, and it fails with the error of the first append that does.
C3_Outcome ==
    \A p \in Procs :
        (Done(p) /\ DeletesKnown(p))
        => /\ flushed[p] \in {"ok", "failed"}
           /\ ret[p] = "false" <=> flushed[p] = "failed"
           /\ ret[p] = "true" <=> (flushed[p] = "ok" /\ errors[p] = 0)
           /\ ret[p] = "error" <=> (flushed[p] = "ok" /\ errors[p] > 0)

C3_Witness ==
    \E p \in Procs :
        /\ Done(p) /\ DeletesKnown(p)
        /\ flushed[p] = "ok" /\ errors[p] > 0 /\ ret[p] = "error"

\* C4: when delete(h) on a known host (deleteInterface(i) on a known interface)
\* has settled, the key is absent from its store whatever the flush did; when
\* the flush failed the call returned false and the chain still holds every
\* rule it held when the call was made, the rule for the key among them.
C4_RemovedWhateverTheFlush ==
    \A p \in Procs :
        (Done(p) /\ DeletesKnown(p))
        => /\ call[p].key \notin Keys(StoreOf(p))
           /\ flushed[p] = "failed"
              => /\ ret[p] = "false"
                 /\ IsPrefix(before[p].chain, chain)

C4_Witness ==
    \E p \in Procs :
        /\ Done(p) /\ DeletesKnown(p)
        /\ flushed[p] = "failed"
        /\ call[p].key \notin Keys(StoreOf(p))
        /\ RulesFor(chain, MatchOf(p), call[p].key) # {}

\* the appends a rebuild owes for the lists it enumerated
Reappends(p) ==
    CmdsOf(p, HostRules(snap[p].hosts)) \o
    CmdsOf(p, IfaceRules(snap[p].ifaces))

\* C5: a run of rebuild issues one flush and nothing else until that flush has
\* completed; once it has succeeded it issues one append per live host entry
\* and one per live interface entry, in the stores' order and with each
\* entry's key and target, and no other command.
C5_FlushThenReappend ==
    \A p \in Procs :
        DeletesKnown(p)
        => /\ pc[p] \in {"rb_flush", "rb_flushed", "rb_hosts"}
              => issued[p] = <<FlushCmd(p)>>
           /\ pc[p] = "rb_flush" <=> flushed[p] = "none" /\ issued[p] # << >>
           /\ pc[p] = "rb_hosts" => snap[p].hosts = List(hostStorage)
           /\ pc[p] \in {"rb_wait", "done"}
              => IF flushed[p] = "ok"
                 THEN /\ issued[p] = <<FlushCmd(p)>> \o Reappends(p)
                      /\ snap[p].ifaces = List(ifaceStorage)
                      /\ Len(issued[p]) =
                            1 + Len(snap[p].hosts) + Len(List(ifaceStorage))
                 ELSE issued[p] = <<FlushCmd(p)>>

C5_Witness ==
    \E p \in Procs :
        /\ Done(p) /\ DeletesKnown(p) /\ ret[p] = "true"
        /\ Len(issued[p]) >= 2
        /\ issued[p][2].rule.match = "-i"

\* C6: when add(h, t) returns true right after an add(h, t) with the same
\* arguments returned true, h not having lapsed in between, the second call
\* issued no command, so the two issued at most the one append of the first
\* (exactly one when h was unknown to the first), and the host store holds
\* exactly one entry for h, live and with target t; the same for addInterface.
C6_SecondAddIssuesNothing ==
    \A p \in Procs :
        (/\ Done(p) /\ ret[p] = "true"
         /\ call[p].name \in {"add", "addInterface"}
         /\ prev.name = call[p].name
         /\ prev.key = call[p].key
         /\ prev.target = call[p].target
         /\ ~prev.expired)
        => /\ issued[p] = << >>
           /\ prev.issued + Len(issued[p]) <= 1
           /\ Cardinality(EntriesOf(StoreOf(p), call[p].key)) = 1
           /\ Includes(StoreOf(p), call[p].key)
           /\ ValueOf(StoreOf(p), call[p].key) = call[p].target

C6_Witness ==
    \E p \in Procs :
        /\ Done(p) /\ ret[p] = "true" /\ call[p].name = "add"
        /\ prev.name = "add" /\ prev.key = call[p].key
        /\ prev.target = call[p].target /\ ~prev.expired
        /\ prev.issued = 1
        /\ Len(hostStorage) = 1

\* C7: keepAlive(h) on a host known with target t issues no command and leaves
\* t the store's target for h.
C7_KeepAliveKeepsTarget ==
    \A p \in Procs :
        (Done(p) /\ call[p].name = "keepAlive" /\ known[p])
        => /\ issued[p] = << >>
           /\ ValueOf(hostStorage, call[p].key) =
                 ValueOf(before[p].hosts, call[p].key)

C9_FailedAppendNotStored ==
    \A p \in Procs :
        (call[p].name \in {"add", "addInterface"} /\ ~known[p])
        => /\ pc[p] \notin {"add_checked", "addi_checked"}
              => issued[p] = <<AppendCmd(p, [match |-> MatchOf(p),
                                            key |-> call[p].key,
                                            target |-> call[p].target])>>
           /\ (Done(p) /\ errors[p] > 0)
              => /\ ret[p] = "error"
                 /\ ~Includes(StoreOf(p), call[p].key)
           /\ (Done(p) /\ ret[p] = "error") => errors[p] > 0

C9_Witness ==
    \E p \in Procs :
        /\ Done(p) /\ call[p].name = "add" /\ ~known[p]
        /\ ret[p] = "error" /\ errors[p] = 1
        /\ Len(issued[p]) = 1
        /\ hostStorage # << >>
        /\ ~Includes(hostStorage, call[p].key)

\* C10: delete(h) for a host not in the host store (deleteInterface(i) for an
\* interface not in the interface store) returns false, issues no command and
\* leaves the two stores and the chain as they were.
C10_UnknownDeleteIsNoOp ==
    \A p \in Procs :
        (/\ call[p].name \in {"delete", "deleteInterface"}
         /\ ~known[p]
         /\ pc[p] \notin {"del_checked", "deli_checked"})
        => /\ Done(p)
           /\ ret[p] = "false"
           /\ issued[p] = << >>
           /\ hostStorage = before[p].hosts
           /\ ifaceStorage = before[p].ifaces
           /\ chain = before[p].chain

C10_Witness ==
    \E p \in Procs :
        /\ Done(p) /\ call[p].name = "deleteInterface" /\ call[p].by = "caller"
        /\ ~known[p] /\ ret[p] = "false"
        /\ chain # << >>
        /\ hostStorage # << >>

\* C11: no interface-store entry is removed by the passage of time: no entry of
\* the interface store ever lapses, and an interface leaves the store only in
\* the step of a deleteInterface that the caller made for it.
C11_InterfaceNeverExpires ==
    [][/\ Lapsed(ifaceStorage') = {}
       /\ \A k \in Keys(ifaceStorage) \ Keys(ifaceStorage') :
             \E p \in Procs :
                /\ pc[p] = "deli_checked"
                /\ call[p].name = "deleteInterface"
                /\ call[p].by = "caller"
                /\ call[p].key = k]_vars

\* a host has lapsed and was swept while the interface added before it is
\* still in its store
C11_Witness ==
    /\ lapses > 0
    /\ hostStorage = << >>
    /\ ifaceStorage # << >>
    /\ Lapsed(ifaceStorage) = {}
    /\ \E p \in Procs : Done(p) /\ call[p].by = "expired"

\* C12: whenever a host entry has been auto-expired by the host store, the
\* controller has, by the time its listener's delete has settled, emitted an
\* 'expired' notification carrying the key of the host to its own listeners.
C12_ExpiredIsEmitted ==
    \A p \in Procs :
        (Done(p) /\ call[p].by = "expired" /\ call[p].name = "delete")
        => [event |-> "expired", key |-> call[p].key] \in emitted

\* C13: flush(nothrow) issues exactly one flush command and no other; when the
\* command fails flush fails with the error if nothrow is false and completes
\* normally if nothrow is true (as it does when the command succeeds); no step
\* of flush modifies the host store or the interface store.
C13_FlushOnceAndNothrow ==
    [][\A p \in Procs :
          call'[p].name = "flush"
          => /\ issued'[p] = <<FlushCmd(p)>>
             /\ pc'[p] # pc[p] => UNCHANGED stores
             /\ pc'[p] = "done"
                => /\ flushed'[p] \in {"ok", "failed"}
                   /\ ret'[p] = IF flushed'[p] = "failed" /\ ~call'[p].nothrow
                                THEN "error" ELSE "void"]_vars

C13_Witness ==
    \E p \in Procs :
        /\ Done(p) /\ call[p].name = "flush" /\ call[p].nothrow
        /\ flushed[p] = "failed" /\ ret[p] = "void"
        /\ issued[p] = <<FlushCmd(p)>>
        /\ hostStorage # << >>
        /\ chain # << >>

\* the episode that ends when p returns was one add and one delete of host h,
\* overlapped, with every command succeeding and nothing lapsing, and it began
\* with the chain holding one rule for each host of the store
AddDeleteRaceOver(p, h) ==
    /\ Done(p)
    /\ \A q \in Procs \ {p} : Idle(q)
    /\ cmds = EmptyBag
    /\ lapses = 0 /\ failures = 0
    /\ episode.clean
    /\ Len(episode.calls) = 2
    /\ {episode.calls[1], episode.calls[2]} =
          {[name |-> "add", key |-> h], [name |-> "delete", key |-> h]}

\* C14: when add(h, t) and delete(h) were overlapped and all operations and
\* all their commands have completed, the chain holds exactly one rule for h
\* if h is in the host store and none if it is not.
C14_AddDeleteRaceSettles ==
    \A p \in Procs, h \in Hosts :
        AddDeleteRaceOver(p, h)
        => Cardinality(RulesFor(chain, "-s", h)) =
              IF Includes(hostStorage, h) THEN 1 ELSE 0

\* the delete found h in the store and rebuilt, and the add put h back
C14_Witness ==
    \E p \in Procs, h \in Hosts :
        /\ AddDeleteRaceOver(p, h)
        /\ call[p].name = "delete" /\ known[p] /\ ret[p] = "true"
        /\ Includes(hostStorage, h)
        /\ Cardinality(RulesFor(chain, "-s", h)) = 1

HostRulesOf(ch) == SelectSeq(ch, LAMBDA r : r.match = "-s")

IfaceRulesOf(ch) == SelectSeq(ch, LAMBDA r : r.match = "-i")

\* C15: when the rebuild of an awaited delete or deleteInterface has succeeded
\* (every command succeeding, nothing expiring), the host rules of the chain
\* are in the host store's enumeration order and its interface rules in the
\* interface store's.
C15_RebuildKeepsOrder ==
    \A p \in Procs :
        (/\ Done(p) /\ DeletesKnown(p) /\ ret[p] = "true"
         /\ discipline = "awaited"
         /\ lapses = 0 /\ failures = 0)
        => /\ HostRulesOf(chain) = HostRules(List(hostStorage))
           /\ IfaceRulesOf(chain) = IfaceRules(List(ifaceStorage))

\* C16: when the flush of a rebuild has failed, the rebuild has at once returned
\* false, not an error, and has issued no command but the flush; the chain
\* holds, in their places, the rules it held before, and is exactly as it was
\* when no other command failed in the behaviour.  This for the rebuild of a
\* delete or a deleteInterface, called by the caller or by an expiry listener.
C16_FailedFlushLeavesChain ==
    \A p \in Procs :
        (DeletesKnown(p) /\ flushed[p] = "failed")
        => /\ Done(p)
           /\ ret[p] = "false"
           /\ issued[p] = <<FlushCmd(p)>>
           /\ IsPrefix(before[p].chain, chain)
           /\ failures = 1 => chain = before[p].chain

C16_Witness ==
    \E p \in Procs :
        /\ Done(p) /\ DeletesKnown(p) /\ flushed[p] = "failed"
        /\ ret[p] = "false"
        /\ Len(before[p].chain) = 2
        /\ chain = before[p].chain
        /\ Len(hostStorage) + Len(ifaceStorage) = 1

\* the rules the rebuild of p owes the chain for the lists it enumerated
Owed(p) == HostRules(snap[p].hosts) \o IfaceRules(snap[p].ifaces)

Count(seq, x) == Cardinality({i \in DOMAIN seq : seq[i] = x})

\* appends of rule r that still run with nothing awaiting them
Running(r) == CopiesIn(AppendCmd(0, r), cmds)

\* the flush of p's rebuild succeeded, an append of it failed, and no other
\* command failed in the behaviour
AppendFailed(p) ==
    /\ Done(p) /\ DeletesKnown(p)
    /\ flushed[p] = "ok" /\ errors[p] > 0
    /\ failures = 1

\* C17: when the flush of a rebuild succeeded and one of its appends failed,
\* delete (deleteInterface) fails with the error instead of returning true or
\* false; the rebuild issued its flush and one append per enumerated entry and
\* nothing after the failure (no second flush, no second append); each of its
\* other appends is in the chain or still running, so the chain holds at most
\* one rule per enumerated entry, never all of them, and no other rule.
C17_PartialRebuildFails ==
    \A p \in Procs :
        AppendFailed(p)
        => /\ ret[p] = "error"
           /\ issued[p] = <<FlushCmd(p)>> \o Reappends(p)
           /\ \A i \in DOMAIN chain : Count(Owed(p), chain[i]) = 1
           /\ \A i \in DOMAIN Owed(p) :
                 Count(chain, Owed(p)[i]) + Running(Owed(p)[i]) <= 1
           /\ Len(chain) + BagCardinality(cmds) + 1 = Len(Owed(p))

\* one append of the rebuild succeeded and stays in the chain, the other failed
C17_Witness ==
    \E p \in Procs :
        /\ AppendFailed(p)
        /\ ret[p] = "error"
        /\ Len(Owed(p)) = 2
        /\ Len(chain) = 1
        /\ cmds = EmptyBag

\* the store of p's key as it was when p was called
StoreBefore(p) ==
    IF call[p].name \in {"addInterface", "deleteInterface"}
    THEN before[p].ifaces ELSE before[p].hosts

\* p is an add (addInterface) that found its key known with another target
Retargets(p) ==
    /\ call[p].name \in {"add", "addInterface"}
    /\ known[p]
    /\ ValueOf(StoreBefore(p), call[p].key) # call[p].target

\* rules of the chain that differ from the store's entry for their key
Stale(ch, hosts, ifaces) ==
    {i \in DOMAIN ch :
        LET store == IF ch[i].match = "-s" THEN hosts ELSE ifaces
        IN  /\ ch[i].key \in Keys(store)
            /\ ch[i].target # ValueOf(store, ch[i].key)}

\* an add that retargets has issued nothing, set the new target and left the
\* chain alone; a rebuild that succeeded, nothing having failed or lapsed, has
\* left in the chain one rule per stored key, with the stored target
RetargetThenRebuild ==
    \A p \in Procs :
        /\ (Done(p) /\ Retargets(p))
           => /\ ret[p] = "true"
              /\ issued[p] = << >>
              /\ ValueOf(StoreOf(p), call[p].key) = call[p].target
              /\ chain = before[p].chain
        /\ (Done(p) /\ DeletesKnown(p) /\ ret[p] = "true"
                    /\ failures = 0 /\ lapses = 0)
           => /\ Stale(chain, hostStorage, ifaceStorage) = {}
              /\ \A i \in DOMAIN Rendered : Count(chain, Rendered[i]) = 1
              /\ Len(chain) = Len(Rendered)

\* C18: add(h, t2) for a host in the store with target t1 # t2 issues no
\* command and makes t2 the store's target; the rule (h, t1) stays in the
\* chain, as every rule does, until a flush empties the chain, and the next
\* rebuild that succeeds leaves for h the rule (h, t2) only.  The same for
\* addInterface.
C18_RetargetIsSilent ==
    [][/\ RetargetThenRebuild'
       /\ chain' # << >> => IsPrefix(chain, chain')]_vars

\* a rebuild has replaced the rule left stale by a retargeting add
C18_Witness ==
    \E p \in Procs :
        /\ Done(p) /\ DeletesKnown(p) /\ ret[p] = "true"
        /\ failures = 0 /\ lapses = 0
        /\ Stale(before[p].chain, before[p].hosts, before[p].ifaces) # {}
        /\ \E i \in Stale(before[p].chain, before[p].hosts, before[p].ifaces) :
              /\ before[p].chain[i].match = "-s"
              /\ Cardinality(RulesFor(chain, "-s", before[p].chain[i].key)) = 1
        /\ Stale(chain, hostStorage, ifaceStorage) = {}

\* C19: with no entry expiring and every command succeeding, once all
\* operations and all their commands have completed the chain holds at most
\* one rule per host and at most one per interface, however the caller
\* overlapped its calls.
C19_NoDuplicateRules ==
    (Quiescent /\ lapses = 0 /\ failures = 0)
    => /\ \A h \in Hosts : Cardinality(RulesFor(chain, "-s", h)) <= 1
       /\ \A i \in Ifaces : Cardinality(RulesFor(chain, "-i", i)) <= 1

\* the chain ch holds, as a multiset, one rule per entry of the two stores,
\* with the entry's target, and no other rule
OneRulePerEntry(ch, hosts, ifaces) ==
    LET want == HostRules(Pairs(hosts)) \o IfaceRules(Pairs(ifaces))
    IN  /\ Len(ch) = Len(want)
        /\ \A i \in DOMAIN want : Count(ch, want[i]) = Count(want, want[i])

\* p is an awaited add, addInterface, delete or deleteInterface of the caller
\* that has returned, in a behaviour where so far no command failed and no
\* entry lapsed, and it did not re-add a known key with another target
PlainCallOver(p) ==
    /\ Done(p)
    /\ discipline = "awaited"
    /\ call[p].by = "caller"
    /\ call[p].name \in {"add", "addInterface", "delete", "deleteInterface"}
    /\ ret[p] \in {"true", "false"}
    /\ failures = 0 /\ lapses = 0
    /\ ~Retargets(p)

\* C20: in a sequence of awaited add, addInterface, delete and deleteInterface
\* calls, every command succeeding, no entry expiring and no known key re-added
\* with another target, the chain after each call holds as a multiset exactly
\* one rule per host entry and one per interface entry, with the stored
\* target: it does before the first call, and after a call whenever it did
\* before that call.
C20_ChainMatchesStores ==
    /\ (calls = 0 /\ \A p \in Procs : Idle(p))
       => OneRulePerEntry(chain, hostStorage, ifaceStorage)
    /\ \A p \in Procs :
          (/\ PlainCallOver(p)
           /\ OneRulePerEntry(before[p].chain, before[p].hosts, before[p].ifaces))
          => OneRulePerEntry(chain, hostStorage, ifaceStorage)

\* add host, add interface, delete host: the third call found the two rules
\* and has left the interface rule alone, the host store empty
C20_Witness ==
    \E p \in Procs :
        /\ PlainCallOver(p)
        /\ calls = 3
        /\ call[p].name = "delete" /\ ret[p] = "true"
        /\ Len(before[p].chain) = 2
        /\ OneRulePerEntry(before[p].chain, before[p].hosts, before[p].ifaces)
        /\ hostStorage = << >>
        /\ Len(ifaceStorage) = 1
        /\ chain = IfaceRules(Pairs(ifaceStorage))

====
